---- MODULE Spec2Model ----
(***************************************************************************)
(* A model of lightnode's src/main.rs: the two pipelines                   *)
(*   parse_block_votes  (stake map, block fetch, scan of the transactions) *)
(*   verify_slot        (slot, block headers, entry-chain verification)    *)
(* Every unwrap()/expect()/assert!/panic! of the source is a transition to *)
(* pc = "panicked", after which the process has ended.                     *)
(***************************************************************************)
EXTENDS Integers, Sequences, FiniteSets, TLC

\* ---------------------------------------------------------------- bounds
MaxTxs == 2        \* transactions in a fetched block
MaxAccounts == 2   \* vote accounts returned (current and delinquent together)
MaxEntries == 2    \* entries in a fetched block header
MaxTicks == 1      \* num_hashes of an entry

\* ---------------------------------------------------------------- values
None == <<>>
Some(x) == <<x>>

VoteProgram == "Vote111111111111111111111111111111111111111"
SysProgram == "11111111111111111111111111111111"
Nodes == {"n1", "n2"}
Stakes == {1, 2}
Hashes == {0, 1, 2}

VARIABLES
    pc,              \* position of the running function
    mode,            \* which function runs: "votes" or "entries"
    calls,           \* ledger-client calls issued so far, per method
    failure,         \* the unwrap/expect/assert/panic that ended the run, or "none"
    vote_accounts,   \* response of get_vote_accounts: [current, delinquent]
    leader_stakes,   \* HashMap node_pubkey -> activated_stake
    total_stake,
    block,           \* resp.result: [transactions |-> Option<Vec<tx>>]
    idx,             \* position of the for loop over block.transactions
    decoded,         \* indices of transactions whose ix data was fed to the VoteInstruction decoder
    out,             \* the reports printed by the scan, in order
    slot,            \* Option: result of get_slot
    header_bytes,    \* Option: result field of getBlockHeaders
    entries,
    last_blockhash,
    verdict          \* what verify_slot printed: result "none", "passed" or "failed", and the reason given

vars == <<pc, mode, calls, failure, vote_accounts, leader_stakes, total_stake,
          block, idx, decoded, out, slot, header_bytes, entries, last_blockhash, verdict>>

votesVars == <<vote_accounts, leader_stakes, total_stake, block, idx, decoded, out>>
entriesVars == <<slot, header_bytes, entries, last_blockhash, verdict>>

Methods == {"get_slot", "get_vote_accounts", "get_block", "get_block_headers"}

\* Sequences over S of length at most n
SeqUpTo(S, n) == UNION {[1..k -> S] : k \in 0..n}

Range(s) == {s[i] : i \in 1..Len(s)}

Init ==
    /\ mode \in {"votes", "entries"}
    /\ pc = IF mode = "votes" THEN "get_vote_accounts" ELSE "get_slot"
    /\ calls = [m \in Methods |-> 0]
    /\ failure = "none"
    /\ vote_accounts = [current |-> <<>>, delinquent |-> <<>>]
    /\ leader_stakes = <<>>
    /\ total_stake = 0
    /\ block = [transactions |-> None]
    /\ idx = 0
    /\ decoded = {}
    /\ out = <<>>
    /\ slot = None
    /\ header_bytes = None
    /\ entries = <<>>
    /\ last_blockhash = 0
    /\ verdict = [result |-> "none", reason |-> None]

\* A panic: the process ends, nothing else changes.
Panic(why) ==
    /\ pc' = "panicked"
    /\ failure' = why

Issue(m) == calls' = [calls EXCEPT ![m] = @ + 1]

\* ------------------------------------------------- stake map (lines 67-73)
VoteAccountInfo == [node_pubkey : Nodes, activated_stake : Stakes]

VoteAccountResponses ==
    {[current |-> c, delinquent |-> d] :
        <<c, d>> \in {p \in SeqUpTo(VoteAccountInfo, MaxAccounts) \X SeqUpTo(VoteAccountInfo, MaxAccounts) :
                        Len(p[1]) + Len(p[2]) <= MaxAccounts}}

\* vote_accounts.current.iter().chain(vote_accounts.delinquent.iter())
Chain(va) == va.current \o va.delinquent

\* a plausible slip: the first value of a key is kept (entry().or_insert())
InsertKeepFirst(m, k, v) == [x \in (DOMAIN m) \cup {k} |-> IF x \in DOMAIN m THEN m[x] ELSE v]

\* HashMap::insert: the value of an existing key is replaced
Insert(m, k, v) == [x \in (DOMAIN m) \cup {k} |-> IF x = k THEN v ELSE m[x]]

RECURSIVE Collect(_, _)
\* .map(|x| (x.node_pubkey.clone(), x.activated_stake)).collect::<HashMap<_, _>>()
Collect(s, m) ==
    IF s = <<>> THEN m
    ELSE Collect(Tail(s), Insert(m, Head(s).node_pubkey, Head(s).activated_stake))

RECURSIVE FoldStakes(_, _, _)
\* leader_stakes.iter().fold(0, |sum, i| sum + *i.1)
FoldStakes(m, keys, sum) ==
    IF keys = {} THEN sum
    ELSE LET k == CHOOSE x \in keys : TRUE
         IN FoldStakes(m, keys \ {k}, sum + m[k])

GetVoteAccountsOk ==
    /\ pc = "get_vote_accounts"
    /\ Issue("get_vote_accounts")
    /\ \E va \in VoteAccountResponses : vote_accounts' = va
    /\ pc' = "build_stakes"
    /\ UNCHANGED <<mode, failure, leader_stakes, total_stake, block, idx, decoded, out>>
    /\ UNCHANGED entriesVars

GetVoteAccountsFail ==
    /\ pc = "get_vote_accounts"
    /\ Issue("get_vote_accounts")
    /\ Panic("get_vote_accounts")
    /\ UNCHANGED <<mode>>
    /\ UNCHANGED votesVars
    /\ UNCHANGED entriesVars

BuildStakes ==
    /\ pc = "build_stakes"
    /\ LET m == Collect(Chain(vote_accounts), <<>>)
       IN /\ leader_stakes' = m
          /\ total_stake' = FoldStakes(m, DOMAIN m, 0)
    /\ pc' = "get_block"
    /\ UNCHANGED <<mode, calls, failure, vote_accounts, block, idx, decoded, out>>
    /\ UNCHANGED entriesVars

\* ------------------------------------------ entry chain (lines 161-181)
\* One application of the PoH hash function.
HashOnce(h) == (h + 1) % Cardinality(Hashes)

RECURSIVE HashN(_, _)
\* Poh::hash(n): the hash function applied n times
HashN(h, n) == IF n = 0 THEN h ELSE HashN(HashOnce(h), n - 1)

\* hash_transactions: a digest of the signatures of the entry's transactions, in order
RECURSIVE HashTransactions(_)
HashTransactions(txs) ==
    IF txs = <<>> THEN 0 ELSE (2 * HashTransactions(Tail(txs)) + Head(txs)) % Cardinality(Hashes)

\* Poh::record(mixin): the running hash mixed with the transactions' digest
HashMix(h, mixin) == (2 * h + mixin + 1) % Cardinality(Hashes)

SatSub1(n) == IF n = 0 THEN 0 ELSE n - 1

\* next_hash(start_hash, num_hashes, transactions)
NextHash(start, e) ==
    IF e.num_hashes = 0 /\ e.transactions = <<>> THEN start
    ELSE LET h == HashN(start, SatSub1(e.num_hashes))
         IN IF e.transactions = <<>> THEN HashOnce(h)
            ELSE HashMix(h, HashTransactions(e.transactions))

\* Entry::verify(start_hash)
EntryVerify(e, start) == NextHash(start, e) = e.hash

\* EntrySlice::verify(start_hash): every entry verifies against the hash of the
\* entry before it, the first one against start_hash
SliceVerify(es, start) ==
    \A i \in 1..Len(es) :
        EntryVerify(es[i], IF i = 1 THEN start ELSE es[i - 1].hash)

EntryValues ==
    [num_hashes : 0..MaxTicks, transactions : {<<>>, <<1>>}, hash : Hashes]

\* the bytes of a getBlockHeaders result: they deserialize to a BlockHeader or not
HeaderBytes ==
    {[ok |-> FALSE, entries |-> <<>>, last_blockhash |-> 0]} \cup
    [ok : {TRUE}, entries : SeqUpTo(EntryValues, MaxEntries), last_blockhash : Hashes]

\* bincode::deserialize::<BlockHeader>
DeserializeHeader(bytes) ==
    IF bytes.ok THEN Some([entries |-> bytes.entries, last_blockhash |-> bytes.last_blockhash])
    ELSE None

GetSlotOk ==
    /\ pc = "get_slot"
    /\ Issue("get_slot")
    /\ slot' = Some(1)
    /\ pc' = "get_block_headers"
    /\ UNCHANGED <<mode, failure, header_bytes, entries, last_blockhash, verdict>>
    /\ UNCHANGED votesVars

\* a plausible slip: a failed get_slot is tried again
GetSlotRetry ==
    /\ pc = "get_slot"
    /\ calls["get_slot"] < 3
    /\ Issue("get_slot")
    /\ UNCHANGED <<pc, mode, failure>>
    /\ UNCHANGED votesVars
    /\ UNCHANGED entriesVars

GetSlotFail ==
    /\ pc = "get_slot"
    /\ Issue("get_slot")
    /\ Panic("get_slot")
    /\ UNCHANGED <<mode>>
    /\ UNCHANGED votesVars
    /\ UNCHANGED entriesVars

\* send_rpc_call! and serde_json::from_str succeed
GetBlockHeadersOk ==
    /\ pc = "get_block_headers"
    /\ Issue("get_block_headers")
    /\ \E b \in HeaderBytes : header_bytes' = Some(b)
    /\ pc' = "deserialize_headers"
    /\ UNCHANGED <<mode, failure, slot, entries, last_blockhash, verdict>>
    /\ UNCHANGED votesVars

\* .expect("error") of the transport, or unwrap() of the JSON parse
GetBlockHeadersFail ==
    /\ pc = "get_block_headers"
    /\ Issue("get_block_headers")
    /\ \E why \in {"transport", "json"} : Panic(why)
    /\ UNCHANGED <<mode>>
    /\ UNCHANGED votesVars
    /\ UNCHANGED entriesVars

DeserializeHeadersOk ==
    /\ pc = "deserialize_headers"
    /\ DeserializeHeader(header_bytes[1]) # None
    /\ entries' = DeserializeHeader(header_bytes[1])[1].entries
    /\ last_blockhash' = DeserializeHeader(header_bytes[1])[1].last_blockhash
    /\ pc' = "verify"
    /\ UNCHANGED <<mode, calls, failure, slot, header_bytes, verdict>>
    /\ UNCHANGED votesVars

DeserializeHeadersFail ==
    /\ pc = "deserialize_headers"
    /\ DeserializeHeader(header_bytes[1]) = None
    /\ Panic("bincode_header")
    /\ UNCHANGED <<mode, calls>>
    /\ UNCHANGED votesVars
    /\ UNCHANGED entriesVars

\* a plausible slip: the test on `verified` inverted
VerifyEntriesInverted ==
    /\ pc = "verify"
    /\ verdict' = [result |-> IF SliceVerify(entries, last_blockhash) THEN "failed" ELSE "passed",
                   reason |-> None]
    /\ pc' = "done"
    /\ UNCHANGED <<mode, calls, failure, slot, header_bytes, entries, last_blockhash>>
    /\ UNCHANGED votesVars

VerifyEntries ==
    /\ pc = "verify"
    /\ LET verified == SliceVerify(entries, last_blockhash)
       IN verdict' = [result |-> IF ~verified THEN "failed" ELSE "passed", reason |-> None]
    /\ pc' = "done"
    /\ UNCHANGED <<mode, calls, failure, slot, header_bytes, entries, last_blockhash>>
    /\ UNCHANGED votesVars

\* ------------------------------------- the scan of a block (lines 77-135)
KnownTags == {"Vote", "VoteSwitch", "UpdateVoteState", "CompactUpdateVoteState", "Withdraw"}
SlotTags == {"Vote", "VoteSwitch", "UpdateVoteState", "CompactUpdateVoteState"}

\* a well-formed vote transaction: node n1 votes for slots 3 and 7
BaseTx ==
    [enc |-> "Base58", text_ok |-> TRUE, bytes_ok |-> TRUE,
     keys |-> <<"n1", VoteProgram>>,
     ixs |-> <<[program_id_index |-> 2, data |-> [tag |-> "Vote", slots |-> <<3, 7>>, hash |-> 1]]>>,
     sigs |-> <<[by |-> "n1", msg_ok |-> TRUE]>>]

WithData(d) == [BaseTx EXCEPT !.ixs = <<[program_id_index |-> 2, data |-> d]>>]

\* the transactions a block may hold; a transaction of a confirmed block has no
\* more signatures than account keys
TxValues ==
    {BaseTx}
    \* envelopes that do not decode
    \cup {[BaseTx EXCEPT !.enc = "Json"], [BaseTx EXCEPT !.enc = "Base64"],
          [BaseTx EXCEPT !.text_ok = FALSE], [BaseTx EXCEPT !.bytes_ok = FALSE]}
    \* other vote instructions
    \cup {WithData([tag |-> "Vote", slots |-> <<>>, hash |-> 1]),
          [WithData([tag |-> "Withdraw", slots |-> <<>>, hash |-> 0])
              EXCEPT !.sigs = <<[by |-> "n1", msg_ok |-> TRUE], [by |-> "n2", msg_ok |-> TRUE]>>],
          WithData([tag |-> "VoteSwitch", slots |-> <<0>>, hash |-> 2]),
          WithData([tag |-> "Unknown", slots |-> <<>>, hash |-> 0])}
    \* another node, a signature that does not verify
    \cup {[BaseTx EXCEPT !.keys = <<"n2", VoteProgram>>,
                         !.ixs = <<[program_id_index |-> 2,
                                    data |-> [tag |-> "CompactUpdateVoteState", slots |-> <<7>>, hash |-> 2]]>>,
                         !.sigs = <<[by |-> "n2", msg_ok |-> FALSE]>>]}
    \* no vote program among the accounts
    \cup {[BaseTx EXCEPT !.keys = <<"n1", SysProgram>>]}
    \* the vote program among the accounts, the first instruction for another program
    \cup {[BaseTx EXCEPT !.keys = <<"n1", SysProgram, VoteProgram>>]}
    \* the vote program among the accounts, no instruction
    \cup {[BaseTx EXCEPT !.ixs = <<>>]}

BlockValues ==
    {[transactions |-> None]} \cup {[transactions |-> Some(t)] : t \in SeqUpTo(TxValues, MaxTxs)}

\* lines 91-99: the match on the encoded transaction
DecodeOutcome(tx) ==
    IF tx.enc = "Json" THEN "panic_ahh"
    ELSE IF tx.enc # "Base58" THEN "assert_base58"
    ELSE IF ~tx.text_ok THEN "bs58_decode"
    ELSE IF ~tx.bytes_ok THEN "bincode_tx"
    ELSE "ok"

\* a plausible slip: every decoded transaction is taken for a vote
ContainsVoteProgramAlways(tx) == TRUE

\* line 102: msg.static_account_keys().contains(&vote_program_id)
ContainsVoteProgram(tx) == VoteProgram \in Range(tx.keys)

\* the program the first instruction targets
FirstProgram(tx) == tx.keys[tx.ixs[1].program_id_index]

\* line 109: bincode::deserialize::<VoteInstruction>
DecodeVoteIx(data) == IF data.tag \in KnownTags THEN Some(data) ELSE None

\* VoteInstruction::last_voted_slot
LastVotedSlot(ix) ==
    IF ix.tag \in SlotTags /\ ix.slots # <<>> THEN Some(ix.slots[Len(ix.slots)]) ELSE None

\* Option::unwrap_or_default
UnwrapOrDefault(o) == IF o = None THEN 0 ELSE o[1]

\* lines 111-115
BankHash(ix) ==
    IF ix.tag \in {"Vote", "CompactUpdateVoteState"} THEN Some(ix.hash) ELSE None

\* HashMap::get
Get(m, k) == IF k \in DOMAIN m THEN Some(m[k]) ELSE None

\* Signature::verify(pubkey, message bytes)
SigVerify(sig, pubkey) == sig.by = pubkey /\ sig.msg_ok

Min(a, b) == IF a < b THEN a ELSE b

\* lines 126-130: signatures zipped with the account keys
SigVerifies(tx) ==
    [i \in 1..Min(Len(tx.sigs), Len(tx.keys)) |-> SigVerify(tx.sigs[i], tx.keys[i])]

Txs == block.transactions[1]
Cur == Txs[idx + 1]
InLoop == pc = "scan" /\ block.transactions # None /\ idx < Len(Txs)

GetBlockOk ==
    /\ pc = "get_block"
    /\ Issue("get_block")
    /\ \E b \in BlockValues : block' = b
    /\ pc' = "scan"
    /\ UNCHANGED <<mode, failure, vote_accounts, leader_stakes, total_stake, idx, decoded, out>>
    /\ UNCHANGED entriesVars

\* .expect("error") of the transport, or unwrap() of the JSON parse
GetBlockFail ==
    /\ pc = "get_block"
    /\ Issue("get_block")
    /\ \E why \in {"transport", "json"} : Panic(why)
    /\ UNCHANGED <<mode>>
    /\ UNCHANGED votesVars
    /\ UNCHANGED entriesVars

\* lines 84-87
NoTransactions ==
    /\ pc = "scan"
    /\ block.transactions = None
    /\ pc' = "done"
    /\ UNCHANGED <<mode, calls, failure>>
    /\ UNCHANGED votesVars
    /\ UNCHANGED entriesVars

\* lines 93-98
DecodePanic ==
    /\ InLoop
    /\ DecodeOutcome(Cur) # "ok"
    /\ Panic(DecodeOutcome(Cur))
    /\ UNCHANGED <<mode, calls>>
    /\ UNCHANGED votesVars
    /\ UNCHANGED entriesVars

\* lines 102-105
SkipNonVote ==
    /\ InLoop
    /\ DecodeOutcome(Cur) = "ok"
    /\ ~ContainsVoteProgram(Cur)
    /\ idx' = idx + 1
    /\ UNCHANGED <<pc, mode, calls, failure, vote_accounts, leader_stakes, total_stake, block, decoded, out>>
    /\ UNCHANGED entriesVars

\* line 107
NoInstructionPanic ==
    /\ InLoop
    /\ DecodeOutcome(Cur) = "ok"
    /\ ContainsVoteProgram(Cur)
    /\ Cur.ixs = <<>>
    /\ Panic("no_instruction")
    /\ UNCHANGED <<mode, calls>>
    /\ UNCHANGED votesVars
    /\ UNCHANGED entriesVars

\* line 109
VoteIxPanic ==
    /\ InLoop
    /\ DecodeOutcome(Cur) = "ok"
    /\ ContainsVoteProgram(Cur)
    /\ Cur.ixs # <<>>
    /\ DecodeVoteIx(Cur.ixs[1].data) = None
    /\ decoded' = decoded \cup {idx + 1}
    /\ Panic("vote_ix")
    /\ UNCHANGED <<mode, calls, vote_accounts, leader_stakes, total_stake, block, idx, out>>
    /\ UNCHANGED entriesVars

\* line 121
StakePanic ==
    /\ InLoop
    /\ DecodeOutcome(Cur) = "ok"
    /\ ContainsVoteProgram(Cur)
    /\ Cur.ixs # <<>>
    /\ DecodeVoteIx(Cur.ixs[1].data) # None
    /\ Get(leader_stakes, Cur.keys[1]) = None
    /\ decoded' = decoded \cup {idx + 1}
    /\ Panic("stake_unwrap")
    /\ UNCHANGED <<mode, calls, vote_accounts, leader_stakes, total_stake, block, idx, out>>
    /\ UNCHANGED entriesVars

\* lines 107-134: the report of a vote, then break
RecordVote ==
    /\ InLoop
    /\ DecodeOutcome(Cur) = "ok"
    /\ ContainsVoteProgram(Cur)
    /\ Cur.ixs # <<>>
    /\ DecodeVoteIx(Cur.ixs[1].data) # None
    /\ Get(leader_stakes, Cur.keys[1]) # None
    /\ LET vote_ix == DecodeVoteIx(Cur.ixs[1].data)[1]
       IN out' = Append(out,
                    [tx |-> idx + 1,
                     node |-> Cur.keys[1],
                     slot_vote |-> UnwrapOrDefault(LastVotedSlot(vote_ix)),
                     bank_hash |-> BankHash(vote_ix),
                     stake_amount |-> Get(leader_stakes, Cur.keys[1])[1],
                     sig_verifies |-> SigVerifies(Cur)])
    /\ decoded' = decoded \cup {idx + 1}
    /\ idx' = idx + 1
    /\ pc' = "done"
    /\ UNCHANGED <<mode, calls, failure, vote_accounts, leader_stakes, total_stake, block>>
    /\ UNCHANGED entriesVars

\* the iterator is exhausted
LoopEnd ==
    /\ pc = "scan"
    /\ block.transactions # None
    /\ idx = Len(Txs)
    /\ pc' = "done"
    /\ UNCHANGED <<mode, calls, failure>>
    /\ UNCHANGED votesVars
    /\ UNCHANGED entriesVars

\* ---------------------------------------------------------------- claims
HasTxs == mode = "votes" /\ pc \in {"scan", "done", "panicked"} /\ block.transactions # None
TxIdx == IF HasTxs THEN 1..Len(Txs) ELSE {}
Decodes(tx) == tx.enc = "Base58" /\ tx.text_ok /\ tx.bytes_ok
\* a transaction the scan is to report: it decodes, names the vote program, and its
\* first instruction holds a vote instruction
IsVoteTx(tx) ==
    /\ Decodes(tx)
    /\ VoteProgram \in Range(tx.keys)
    /\ tx.ixs # <<>>
    /\ tx.ixs[1].data.tag \in KnownTags
VoteIdx == {i \in TxIdx : IsVoteTx(Txs[i])}
Reported == {out[k].tx : k \in 1..Len(out)}
DecodeFailures == {"panic_ahh", "assert_base58", "bs58_decode", "bincode_tx", "vote_ix"}
FetchFailures == {"get_slot", "get_vote_accounts", "transport", "json", "bincode_header"}

\* C1: a transaction that fails to decode is skipped: the scan does not panic on it,
\* the transactions after it are still processed, and a block of one malformed
\* envelope among N valid vote transactions yields N-1 reports.
C1_SkipOnMalformed ==
    /\ ~(pc = "panicked" /\ failure \in DecodeFailures)
    /\ (HasTxs /\ pc = "done" /\ (\E i \in TxIdx : ~Decodes(Txs[i]))) => idx = Len(Txs)
    /\ (HasTxs /\ pc = "done"
          /\ Cardinality({i \in TxIdx : ~Decodes(Txs[i])}) = 1
          /\ Cardinality(VoteIdx) = Len(Txs) - 1)
        => Len(out) = Len(Txs) - 1

\* the index of the first entry whose recomputed hash differs from its claimed one
RECURSIVE FirstBad(_, _, _)
FirstBad(es, running, i) ==
    IF es = <<>> THEN None
    ELSE IF NextHash(running, Head(es)) # Head(es).hash THEN Some(i)
    ELSE FirstBad(Tail(es), Head(es).hash, i + 1)

\* C2: when entry i is the first whose recomputed hash differs from its claimed hash,
\* the verification reports Failed with the reason HashMismatch(i).
C2_FirstBadEntryReported ==
    (mode = "entries" /\ pc = "done" /\ FirstBad(entries, last_blockhash, 0) # None)
        => /\ verdict.result = "failed"
           /\ verdict.reason = Some([kind |-> "HashMismatch",
                                     index |-> FirstBad(entries, last_blockhash, 0)[1]])

\* the replay with a running hash: a zero-transaction entry is expected to hold the
\* hash function applied num_hashes times to the running hash
RECURSIVE RunningVerify(_, _)
RunningVerify(es, running) ==
    IF es = <<>> THEN TRUE
    ELSE LET e == Head(es)
             expected == IF e.transactions = <<>> THEN HashN(running, e.num_hashes)
                         ELSE HashMix(HashN(running, SatSub1(e.num_hashes)),
                                      HashTransactions(e.transactions))
         IN expected = e.hash /\ RunningVerify(Tail(es), expected)

C4_OneRecordPerVoteInOrder ==
    (HasTxs /\ pc = "done")
        => /\ Reported = VoteIdx
           /\ Len(out) = Cardinality(VoteIdx)
           /\ \A k \in 1..Len(out) : \A l \in 1..Len(out) : k < l => out[k].tx < out[l].tx

\* the last position of node n in the chained list
LastIndexOf(ch, n) == CHOOSE i \in 1..Len(ch) :
    ch[i].node_pubkey = n /\ \A j \in (i + 1)..Len(ch) : ch[j].node_pubkey # n

RECURSIVE SumOfLast(_, _)
\* the sum of the stakes of the entries that are the last of their node
SumOfLast(ch, i) ==
    IF i > Len(ch) THEN 0
    ELSE (IF LastIndexOf(ch, ch[i].node_pubkey) = i THEN ch[i].activated_stake ELSE 0)
         + SumOfLast(ch, i + 1)

RECURSIVE SumOfAll(_)
SumOfAll(ch) == IF ch = <<>> THEN 0 ELSE Head(ch).activated_stake + SumOfAll(Tail(ch))

StakesBuilt == mode = "votes" /\ pc \in {"get_block", "scan", "done"}

\* C5: the stake map has one entry per distinct node of current followed by
\* delinquent, holding the stake of the node's last entry; total_stake is the sum
\* of these kept stakes.
C5_StakeRegistry ==
    StakesBuilt =>
        LET ch == Chain(vote_accounts)
        IN /\ DOMAIN leader_stakes = {ch[i].node_pubkey : i \in 1..Len(ch)}
           /\ \A n \in DOMAIN leader_stakes :
                leader_stakes[n] = ch[LastIndexOf(ch, n)].activated_stake
           /\ total_stake = SumOfLast(ch, 1)

C5_Witness ==
    /\ StakesBuilt
    /\ Len(vote_accounts.current) = 1 /\ Len(vote_accounts.delinquent) = 1
    /\ vote_accounts.current[1].node_pubkey = vote_accounts.delinquent[1].node_pubkey
    /\ vote_accounts.current[1].activated_stake # vote_accounts.delinquent[1].activated_stake
    /\ total_stake # SumOfAll(Chain(vote_accounts))

\* C6: a vote whose node is not in the stake map is reported with no stake; the
\* lookup is not an error and does not end the scan.
C6_UnknownNodeIsNone ==
    /\ ~(pc = "panicked" /\ failure = "stake_unwrap")
    /\ \A i \in VoteIdx :
         (i \in decoded /\ Txs[i].keys[1] \notin DOMAIN leader_stakes) => i \in Reported

\* C7: each report holds one boolean per signature of its transaction, in order,
\* each the check of the signature against the account at the same position; a
\* signature that does not verify is reported as FALSE and the scan goes on.
C7_OneBooleanPerSignature ==
    /\ \A k \in 1..Len(out) :
         LET tx == Txs[out[k].tx]
         IN /\ Len(out[k].sig_verifies) = Len(tx.sigs)
            /\ \A j \in 1..Len(tx.sigs) :
                 out[k].sig_verifies[j] = SigVerify(tx.sigs[j], tx.keys[j])
    /\ (HasTxs /\ pc = "done" /\ \E k \in 1..Len(out) : FALSE \in Range(out[k].sig_verifies))
         => idx = Len(Txs)

C9_NoRetryFailuresTerminal ==
    /\ [](\A m \in Methods : calls[m] <= 1)
    /\ [](failure \in FetchFailures => (pc = "panicked" /\ verdict.result = "none" /\ out = <<>>))
    /\ [][failure = "none"]_vars

C9_Witness ==
    /\ pc = "panicked" /\ failure = "json" /\ mode = "entries"
    /\ calls["get_slot"] = 1 /\ calls["get_block_headers"] = 1

\* what the report says of the voted slot
ReportedSlot(r) == Some(r.slot_vote)

\* C10: the reported slot is absent when the instruction has no voted slot and is
\* the last voted slot otherwise; the bank hash is present exactly for Vote and
\* CompactUpdateVoteState.
C10_SlotAndBankHash ==
    \A k \in 1..Len(out) :
        LET ix == Txs[out[k].tx].ixs[1].data
        IN /\ ReportedSlot(out[k]) = (IF ix.tag \in SlotTags /\ ix.slots # <<>>
                                      THEN Some(ix.slots[Len(ix.slots)]) ELSE None)
           /\ (out[k].bank_hash # None) <=> ix.tag \in {"Vote", "CompactUpdateVoteState"}

Next ==
    \/ GetVoteAccountsOk
    \/ GetVoteAccountsFail
    \/ BuildStakes
    \/ GetBlockOk
    \/ GetBlockFail
    \/ NoTransactions
    \/ DecodePanic
    \/ SkipNonVote
    \/ NoInstructionPanic
    \/ VoteIxPanic
    \/ StakePanic
    \/ RecordVote
    \/ LoopEnd
    \/ GetSlotOk
    \/ GetSlotFail
    \/ GetBlockHeadersOk
    \/ GetBlockHeadersFail
    \/ DeserializeHeadersOk
    \/ DeserializeHeadersFail
    \/ VerifyEntries

Spec == Init /\ [][Next]_vars
====
